---- MODULE Spec2Model ----
(***************************************************************************)
(* A model of django_jenkins/runner.py: the EXMLTestResult recorder (a     *)
(* unittest TextTestResult that builds a JUnit XML tree) and               *)
(* CITestSuiteRunner.run_suite, which runs a suite and dumps the tree.     *)
(*                                                                         *)
(* The recorder object is the record `self`; the interpreter's stream      *)
(* bindings are `sys`; the file system is `fs`.  Every method is an        *)
(* operator from a machine state [self, sys, exc, err] (err is the         *)
(* exc_info the host passes with a failure) to the machine state           *)
(* after the call, the inherited unittest.TestResult part included (the    *)
(* super() calls).  A raised exception is the field exc; the statements    *)
(* after the raising one are not executed.                                 *)
(***************************************************************************)
EXTENDS Integers, Sequences, FiniteSets, TLC

\* Bounds of the model
MaxTests == 2
MaxCases == 2
MaxOut == 1
MaxSub == 1
MaxClock == 2
MaxDumps == 2
MaxFrames == 4

VARIABLES self, sys, fs, now, debug, host, exc, dump, pc

vars == <<self, sys, fs, now, debug, host, exc, dump, pc>>

\* ---------------------------------------------------------------- values

NoTime == -1

\* the test-like object unittest passes for a class or module level outcome
ErrorHolder == 0

\* limit=None: the traceback is rendered whole
NoLimit == -1

\* an exc_info whose traceback has no frames
NoTraceback == [failure |-> FALSE, tb |-> <<>>]

\* the tracebacks of up to MaxFrames frames, each frame internal to the
\* test framework ('__unittest' in its globals) or not
Tracebacks ==
    UNION {[1..n -> BOOLEAN] : n \in 0..MaxFrames}

\* the frames of a traceback, numbered from the outermost
Frames(flags) == [i \in DOMAIN flags |-> [id |-> i, internal |-> flags[i]]]

\* sys.exc_info() of an exception: failure says that its type is the test's
\* failureException
ExcInfos ==
    {[failure |-> f, tb |-> Frames(flags)] : f \in BOOLEAN, flags \in Tracebacks}

\* a test-like object with neither _testMethodName nor description
Anonymous == MaxTests + 1

\* a TestCase that also has a description attribute
Described == MaxTests + 2

\* hasattr(test, '_testMethodName'): the TestCases, numbered from 1
HasMethodName(test) == test \in 1..MaxTests \/ test = Described

\* hasattr(test, 'description')
HasDescription(test) == test = ErrorHolder \/ test = Described

\* test._testMethodName
MethodName(test) == "test_" \o ToString(test)

\* test.description
Description(test) == "description of " \o ToString(test)

NoAttrs == [k \in {} |-> ""]

NoTree == [made |-> FALSE, attrs |-> NoAttrs, cases |-> <<>>]

Outcomes == {"addSuccess", "addFailure", "addError", "addUnexpectedSuccess",
             "addSkip", "addExpectedFailure"}

PayloadTags == {"failure", "error", "skipped"}

\* ET.SubElement(parent, tag): a new child element
Element(tag, text, tbOut, tbErr) ==
    [tag |-> tag, text |-> text, tbOut |-> tbOut, tbErr |-> tbErr]

Raise(m, e) == [m EXCEPT !.exc = e]

Ok(m) == m.exc = "none"

\* hasattr(sys.stdout, 'getvalue'): only the recorder's StringIO has it
Readable(binding) == binding = "buffer"

\* sys.stdout.getvalue() if hasattr(sys.stdout, 'getvalue') else ''
GetOutput(m) == IF Readable(m.sys.stdout) THEN m.self.stdout_buffer ELSE <<>>

GetError(m) == IF Readable(m.sys.stderr) THEN m.self.stderr_buffer ELSE <<>>

\* ------------------------------------------- unittest.TestResult (inherited)

TestResult_setupStdout(m) ==
    IF m.self.buffer
    THEN [m EXCEPT !.self.buffers_made = TRUE,
                   !.sys.stdout = "buffer",
                   !.sys.stderr = "buffer"]
    ELSE m

TestResult_restoreStdout(m) ==
    IF ~m.self.buffer THEN m
    ELSE IF m.self.mirrorOutput /\ ~Readable(m.sys.stdout) THEN Raise(m, "AttributeError")
    ELSE IF m.self.mirrorOutput /\ ~Readable(m.sys.stderr) THEN Raise(m, "AttributeError")
    ELSE LET r == [m EXCEPT !.sys.stdout = "original", !.sys.stderr = "original"]
         IN  IF ~m.self.buffers_made THEN Raise(r, "AttributeError")
             ELSE [r EXCEPT !.self.stdout_buffer = <<>>, !.self.stderr_buffer = <<>>]

\* ------------------------------------------------------- EXMLTestResult

\* __init__ ; buffer is the keyword argument the runner passes on
EXMLTestResult(t, buf) ==
    [case_start_time |-> t, run_start_time |-> NoTime, tree |-> NoTree,
     testcase |-> 0,
     failures |-> <<>>, errors |-> <<>>, testsRun |-> 0, skipped |-> <<>>,
     expectedFailures |-> <<>>, unexpectedSuccesses |-> <<>>,
     buffer |-> buf, mirrorOutput |-> FALSE, buffers_made |-> FALSE,
     stdout_buffer |-> <<>>, stderr_buffer |-> <<>>]

\* _restoreStdout that leaves buffering as it was
restoreStdout_KeepBuffer(m) == TestResult_restoreStdout(m)

restoreStdout(m) ==
    LET r == TestResult_restoreStdout(m)
    IN  IF Ok(r) THEN [r EXCEPT !.self.buffer = FALSE] ELSE r

\* startTest that does not reach TestResult.startTest
startTest_NoSuper(m, t, test) == [m EXCEPT !.self.case_start_time = t]

\* startTest that does not read the clock
startTest_NoRestart(m, t, test) ==
    LET b == [m EXCEPT !.self.testsRun = @ + 1, !.self.mirrorOutput = FALSE]
    IN  TestResult_setupStdout(b)

startTest(m, t, test) ==
    LET a == [m EXCEPT !.self.case_start_time = t]
        b == [a EXCEPT !.self.testsRun = @ + 1, !.self.mirrorOutput = FALSE]
    IN  TestResult_setupStdout(b)

startTestRun(m, t) ==
    [m EXCEPT !.self.tree = [made |-> TRUE, attrs |-> NoAttrs, cases |-> <<>>],
              !.self.run_start_time = t]

\* a name that prefers the description to the method name
Name_DescriptionFirst(test) ==
    IF HasDescription(test) THEN Description(test)
    ELSE IF HasMethodName(test) THEN MethodName(test)
    ELSE "UNKNOWN"

\* getattr(test, '_testMethodName', getattr(test, 'description', 'UNKNOWN'))
Name(test) ==
    IF HasMethodName(test) THEN MethodName(test)
    ELSE IF HasDescription(test) THEN Description(test)
    ELSE "UNKNOWN"

\* _make_testcase_element that inserts the new element before the others
make_testcase_element_First(m, t, test) ==
    IF ~m.self.tree.made THEN Raise(m, "TypeError")
    ELSE LET time_taken == t - m.self.case_start_time
             testcase == [test |-> test, name |-> Name(test), time |-> time_taken,
                          children |-> <<>>]
         IN  [m EXCEPT !.self.tree.cases = <<testcase>> \o @,
                       !.self.testcase = 1]

make_testcase_element(m, t, test) ==
    IF ~m.self.tree.made THEN Raise(m, "TypeError")
    ELSE LET time_taken == t - m.self.case_start_time
             testcase == [test |-> test, name |-> Name(test), time |-> time_taken,
                          children |-> <<>>]
         IN  [m EXCEPT !.self.tree.cases = Append(@, testcase),
                       !.self.testcase = Len(m.self.tree.cases) + 1]

\* ET.SubElement(self.testcase, tag) with the element's text
SubElement(m, el) ==
    IF m.self.testcase = 0 THEN Raise(m, "AttributeError")
    ELSE [m EXCEPT !.self.tree.cases[m.self.testcase].children = Append(@, el)]

\* TestResult._is_relevant_tb_level: the frame belongs to the test framework
is_relevant_tb_level(tb) == Head(tb).internal

\* while tb and self._is_relevant_tb_level(tb): tb = tb.tb_next
RECURSIVE SkipRunnerLevels(_)
SkipRunnerLevels(tb) ==
    IF tb # <<>> /\ is_relevant_tb_level(tb) THEN SkipRunnerLevels(Tail(tb)) ELSE tb

\* a count of all the levels that are left
count_relevant_tb_levels_All(tb) == Len(tb)

\* TestResult._count_relevant_tb_levels (inherited)
RECURSIVE count_relevant_tb_levels(_)
count_relevant_tb_levels(tb) ==
    IF tb # <<>> /\ ~is_relevant_tb_level(tb)
    THEN 1 + count_relevant_tb_levels(Tail(tb))
    ELSE 0

\* traceback.TracebackException(exctype, value, tb, limit=length): the
\* first length frames, or all of them
TracebackException(tb, limit) ==
    IF limit = NoLimit THEN tb
    ELSE SubSeq(tb, 1, IF limit < Len(tb) THEN limit ELSE Len(tb))

\* the frames _exc_info_to_string renders
exc_info_to_string(err) ==
    LET tb == SkipRunnerLevels(err.tb)
        length == IF err.failure THEN count_relevant_tb_levels(tb) ELSE NoLimit
    IN  TracebackException(tb, length)

\* the Stdout / Stderr sections _exc_info_to_string appends to the traceback
TbSections(m) ==
    IF m.self.buffer THEN [out |-> GetOutput(m), err |-> GetError(m)]
    ELSE [out |-> <<>>, err |-> <<>>]

TbElement(m, tag) ==
    Element(tag, exc_info_to_string(m.err), TbSections(m).out, TbSections(m).err)

addSuccess(m, t, test) == make_testcase_element(m, t, test)

addFailure(m, t, test) ==
    LET a == make_testcase_element(m, t, test)
        b == IF Ok(a) THEN SubElement(a, TbElement(a, "failure")) ELSE a
    IN  IF Ok(b) THEN [b EXCEPT !.self.failures = Append(@, test),
                                !.self.mirrorOutput = TRUE]
        ELSE b

addError(m, t, test) ==
    LET a == make_testcase_element(m, t, test)
        b == IF Ok(a) THEN SubElement(a, TbElement(a, "error")) ELSE a
    IN  IF Ok(b) THEN [b EXCEPT !.self.errors = Append(@, test),
                                !.self.mirrorOutput = TRUE]
        ELSE b

\* addUnexpectedSuccess that leaves the skipped element out
addUnexpectedSuccess_NoPayload(m, t, test) ==
    LET a == make_testcase_element(m, t, test)
    IN  IF Ok(a) THEN [a EXCEPT !.self.unexpectedSuccesses = Append(@, test)] ELSE a

addUnexpectedSuccess(m, t, test) ==
    LET a == make_testcase_element(m, t, test)
        b == IF Ok(a) THEN SubElement(a, Element("skipped", <<>>, <<>>, <<>>)) ELSE a
    IN  IF Ok(b) THEN [b EXCEPT !.self.unexpectedSuccesses = Append(@, test)] ELSE b

addSkip(m, t, test) ==
    LET a == make_testcase_element(m, t, test)
        b == IF Ok(a) THEN SubElement(a, Element("skipped", <<>>, <<>>, <<>>)) ELSE a
    IN  IF Ok(b) THEN [b EXCEPT !.self.skipped = Append(@, test)] ELSE b

addExpectedFailure(m, t, test) ==
    LET a == make_testcase_element(m, t, test)
        b == IF Ok(a) THEN SubElement(a, TbElement(a, "skipped")) ELSE a
    IN  IF Ok(b) THEN [b EXCEPT !.self.expectedFailures = Append(@, test)] ELSE b

\* addSubTest is inherited unchanged: a failed subtest is appended to
\* failures (failureException) or errors, and no testcase element is made
addSubTest(m, test, isFailure) ==
    IF isFailure
    THEN [m EXCEPT !.self.failures = Append(@, test), !.self.mirrorOutput = TRUE]
    ELSE [m EXCEPT !.self.errors = Append(@, test), !.self.mirrorOutput = TRUE]

\* a capture step that calls getvalue() without the hasattr check
Capture_Unguarded(m) ==
    IF ~m.self.buffer THEN m
    ELSE IF ~Readable(m.sys.stdout) \/ ~Readable(m.sys.stderr)
    THEN Raise(m, "AttributeError")
    ELSE LET a == IF m.self.stdout_buffer # <<>>
                  THEN SubElement(m, Element("system-out", m.self.stdout_buffer, <<>>, <<>>))
                  ELSE m
         IN  IF Ok(a) /\ a.self.stderr_buffer # <<>>
             THEN SubElement(a, Element("system-err", a.self.stderr_buffer, <<>>, <<>>))
             ELSE a

\* the capture step of stopTest (the if self.buffer block)
Capture(m) ==
    IF ~m.self.buffer THEN m
    ELSE LET output == GetOutput(m)
             a == IF output # <<>>
                  THEN SubElement(m, Element("system-out", output, <<>>, <<>>))
                  ELSE m
             error == GetError(a)
         IN  IF Ok(a) /\ error # <<>>
             THEN SubElement(a, Element("system-err", error, <<>>, <<>>))
             ELSE a

stopTest(m, test) ==
    LET a == Capture(m)
        b == IF Ok(a) THEN restoreStdout(a) ELSE a
    IN  IF Ok(b) THEN [b EXCEPT !.self.mirrorOutput = FALSE] ELSE b

stopTestRun(m, t) ==
    LET run_time_taken == t - m.self.run_start_time
    IN  [m EXCEPT !.self.tree.attrs =
            [name |-> "Django Project Tests",
             errors |-> ToString(Len(m.self.errors)),
             failures |-> ToString(Len(m.self.failures)),
             skips |-> ToString(Len(m.self.skipped)),
             tests |-> ToString(m.self.testsRun),
             time |-> ToString(run_time_taken)]]


\* dump_xml that refuses a tree without the aggregate attributes
dump_write_Guarded(f, tree) ==
    IF DOMAIN tree.attrs = {} THEN [fs |-> f, exc |-> "AssertionError"]
    ELSE [fs |-> [f EXCEPT !.junit = [state |-> "xml", xml |-> tree]], exc |-> "none"]

\* dump_xml, as the three system calls it makes.  exists() and makedirs()
\* are separate calls: the directory can appear between them.
\* a dump_xml that creates the directory without looking for it
dump_exists_Unchecked(dirExists) == "makedirs"

dump_exists(dirExists) == IF dirExists THEN "write" ELSE "makedirs"

\* os.makedirs raises FileExistsError on an existing directory
dump_makedirs(f) ==
    IF f.dir THEN [fs |-> f, exc |-> "FileExistsError"]
    ELSE [fs |-> [f EXCEPT !.dir = TRUE], exc |-> "none"]

\* ElementTree(self.tree).write(path): the file is opened (truncated) and
\* then the tree serialised; a tree of None raises once the file is open
dump_write(f, tree) ==
    IF tree.made
    THEN [fs |-> [f EXCEPT !.junit = [state |-> "xml", xml |-> tree]], exc |-> "none"]
    ELSE [fs |-> [f EXCEPT !.junit = [state |-> "empty", xml |-> NoTree]],
          exc |-> "AttributeError"]

\* ------------------------------------------------------------ the machine

\* a runner that buffers whatever the debug flag is
run_suite_buffer_Always(dbg) == TRUE

\* run_suite: buffer=not self.debug
run_suite_buffer(dbg) == ~dbg

M == [self |-> self, sys |-> sys, exc |-> "none", err |-> host.err]

\* the state after a call of the recorder that returned or raised as r
Apply(r) ==
    /\ self' = r.self
    /\ sys' = r.sys
    /\ exc' = r.exc

NoFile == [state |-> "absent", xml |-> NoTree]

\* the state after construction, for a host whose failing tests raise one of
\* the given exceptions
InitWith(p, errs) ==
    /\ debug \in BOOLEAN
    /\ now = 0
    /\ self = EXMLTestResult(now, run_suite_buffer(debug))
    /\ sys = [stdout |-> "original", stderr |-> "original"]
    /\ fs = [dir |-> FALSE, junit |-> NoFile]
    /\ \E e \in errs : host =
              [phase |-> "idle", started |-> 0, cur |-> 0, fixture |-> FALSE,
               printedOut |-> <<>>, printedErr |-> <<>>, subs |-> 0, dumps |-> 0,
               madeAt |-> now, startedAt |-> NoTime, calls |-> <<>>,
               finalDumps |-> 0, err |-> e]
    /\ exc = "none"
    /\ dump = "idle"
    /\ pc = p

InitVars(p) == InitWith(p, {NoTraceback})

\* the recorder driven through its public interface
Init == InitVars("api")

\* the recorder driven by CITestSuiteRunner.run_suite
InitRunSuite == InitVars("start")

Running == host.phase = "running" /\ exc = "none" /\ dump = "idle"

\* the test the host names in an outcome callback
Subject == IF host.cur # 0 THEN host.cur ELSE ErrorHolder

\* time.time(): a reading of a clock that does not go back
Time(t) == now' = t

StartTestRunAt(t) ==
    /\ host.phase = "idle" /\ dump = "idle" /\ exc = "none"
    /\ pc \in {"api", "start"}
    /\ Time(t) /\ Apply(startTestRun(M, t))
    /\ host' = [host EXCEPT !.phase = "running"]
    /\ pc' = IF pc = "start" THEN "run" ELSE pc
    /\ UNCHANGED <<fs, debug, dump>>

StartTestAt(t) ==
    /\ Running /\ host.cur = 0 /\ ~host.fixture
    /\ host.started < MaxTests
    /\ LET test == host.started + 1
       IN  /\ Time(t) /\ Apply(startTest(M, t, test))
           /\ host' = [host EXCEPT !.started = test, !.cur = test,
                                   !.printedOut = <<>>, !.printedErr = <<>>,
                                   !.startedAt = t]
    /\ UNCHANGED <<fs, debug, dump, pc>>

OutcomeCall(o, m, t, test) ==
    CASE o = "addSuccess" -> addSuccess(m, t, test)
      [] o = "addFailure" -> addFailure(m, t, test)
      [] o = "addError" -> addError(m, t, test)
      [] o = "addUnexpectedSuccess" -> addUnexpectedSuccess(m, t, test)
      [] o = "addSkip" -> addSkip(m, t, test)
      [] o = "addExpectedFailure" -> addExpectedFailure(m, t, test)

\* unittest reports a class or module level outcome, which has no
\* startTest, with addError or addSkip
HolderOutcomes == {"addError", "addSkip"}

OutcomeAt(o, t) ==
    /\ Running
    /\ host.cur # 0 \/ o \in HolderOutcomes
    /\ Len(self.tree.cases) < MaxCases
    /\ Time(t) /\ Apply(OutcomeCall(o, M, t, Subject))
    /\ host' = [host EXCEPT !.calls = Append(@, [callback |-> o, test |-> Subject])]
    /\ UNCHANGED <<fs, debug, dump, pc>>

\* the objects a host can name in an outcome callback
TestObjects ==
    {ErrorHolder, Anonymous, Described} \union (IF host.cur # 0 THEN {host.cur} ELSE {})

\* an outcome callback for any test-like object
OutcomeOf(o, test) ==
    /\ Running
    /\ test \in TestObjects
    /\ Len(self.tree.cases) < MaxCases
    /\ Apply(OutcomeCall(o, M, now, test))
    /\ host' = [host EXCEPT !.calls = Append(@, [callback |-> o, test |-> test])]
    /\ UNCHANGED <<fs, now, debug, dump, pc>>

SubTest(isFailure) ==
    /\ Running /\ host.cur # 0
    /\ host.subs < MaxSub
    /\ Apply(addSubTest(M, host.cur, isFailure))
    /\ host' = [host EXCEPT !.subs = @ + 1]
    /\ UNCHANGED <<fs, now, debug, dump, pc>>

StopTest ==
    /\ Running /\ host.cur # 0
    /\ LET r == stopTest(M, host.cur)
       IN  /\ Apply(r)
           /\ host' = [host EXCEPT !.cur = IF Ok(r) THEN 0 ELSE @]
    /\ UNCHANGED <<fs, now, debug, dump, pc>>

\* the running test (or fixture) writes to sys.stdout / sys.stderr
WriteOut ==
    /\ Running /\ (host.cur # 0 \/ host.fixture)
    /\ Len(host.printedOut) < MaxOut
    /\ host' = [host EXCEPT !.printedOut = Append(@, host.cur)]
    /\ self' = IF Readable(sys.stdout)
               THEN [self EXCEPT !.stdout_buffer = Append(@, host.cur)]
               ELSE self
    /\ UNCHANGED <<sys, fs, now, debug, exc, dump, pc>>

WriteErr ==
    /\ Running /\ (host.cur # 0 \/ host.fixture)
    /\ Len(host.printedErr) < MaxOut
    /\ host' = [host EXCEPT !.printedErr = Append(@, host.cur)]
    /\ self' = IF Readable(sys.stderr)
               THEN [self EXCEPT !.stderr_buffer = Append(@, host.cur)]
               ELSE self
    /\ UNCHANGED <<sys, fs, now, debug, exc, dump, pc>>

\* the running test rebinds both streams to objects without getvalue
RebindStreams ==
    /\ Running /\ host.cur # 0
    /\ sys.stdout = "buffer" \/ sys.stderr = "buffer"
    /\ sys' = [stdout |-> "original", stderr |-> "original"]
    /\ UNCHANGED <<self, fs, now, debug, host, exc, dump, pc>>

\* unittest's suite calls _setupStdout / _restoreStdout around class and
\* module fixtures
FixtureSetup ==
    /\ Running /\ host.cur = 0 /\ ~host.fixture
    /\ Apply(TestResult_setupStdout(M))
    /\ host' = [host EXCEPT !.fixture = TRUE, !.printedOut = <<>>,
                            !.printedErr = <<>>]
    /\ UNCHANGED <<fs, now, debug, dump, pc>>

FixtureRestore ==
    /\ Running /\ host.fixture
    /\ Apply(restoreStdout(M))
    /\ host' = [host EXCEPT !.fixture = FALSE, !.printedOut = <<>>,
                            !.printedErr = <<>>]
    /\ UNCHANGED <<fs, now, debug, dump, pc>>

\* TextTestRunner.run calls stopTestRun in a finally block: after the last
\* test, or while an exception unwinds
StopTestRunAt(t) ==
    /\ host.phase = "running" /\ dump = "idle"
    /\ exc # "none" \/ (host.cur = 0 /\ ~host.fixture)
    /\ Time(t) /\ self' = stopTestRun(M, t).self
    /\ host' = [host EXCEPT !.phase = "finalized"]
    /\ pc' = IF pc = "run" THEN (IF exc = "none" THEN "ran" ELSE "aborted") ELSE pc
    /\ UNCHANGED <<sys, fs, debug, exc, dump>>


\* dump_xml(output_dir) is entered: os.path.exists(output_dir)
\* a run_suite that dumps in a finally block
RunSuiteMayDump_Finally == pc \in {"ran", "aborted"}

\* run_suite calls dump_xml after .run(suite) has returned
RunSuiteMayDump == pc = "ran"

DumpXml ==
    /\ dump = "idle"
    /\ host.dumps < MaxDumps
    /\ pc = "api" \/ RunSuiteMayDump
    /\ dump' = dump_exists(fs.dir)
    /\ exc' = "none"
    /\ host' = [host EXCEPT !.dumps = @ + 1,
                            !.finalDumps = IF host.phase = "finalized"
                                           THEN @ + 1 ELSE @]
    /\ pc' = IF pc = "ran" THEN "dump" ELSE pc
    /\ UNCHANGED <<self, sys, fs, now, debug>>

DumpMakedirs ==
    /\ dump = "makedirs"
    /\ LET r == dump_makedirs(fs)
       IN  /\ fs' = r.fs
           /\ exc' = r.exc
           /\ dump' = IF r.exc = "none" THEN "write" ELSE "idle"
           /\ pc' = IF pc = "dump" /\ r.exc # "none" THEN "dump_failed" ELSE pc
    /\ UNCHANGED <<self, sys, now, debug, host>>

DumpWrite ==
    /\ dump = "write"
    /\ LET r == dump_write(fs, self.tree)
       IN  /\ fs' = r.fs
           /\ exc' = r.exc
           /\ pc' = IF pc = "dump"
                    THEN (IF r.exc = "none" THEN "dumped" ELSE "dump_failed")
                    ELSE pc
    /\ dump' = "idle"
    /\ UNCHANGED <<self, sys, now, debug, host>>

\* another process that shares the output directory creates it; the only
\* moment this differs from a directory that was there before is between
\* dump_xml's exists() and makedirs()
OtherWriter ==
    /\ dump = "makedirs"
    /\ ~fs.dir
    /\ fs' = [fs EXCEPT !.dir = TRUE]
    /\ UNCHANGED <<self, sys, now, debug, host, exc, dump, pc>>

\* the suite is interrupted (an exception that is not a test outcome):
\* TestCase.run still calls stopTest in its finally block
Interrupt ==
    /\ Running /\ pc = "run"
    /\ LET r == IF host.cur # 0 THEN stopTest(M, host.cur) ELSE M
       IN  /\ self' = r.self
           /\ sys' = r.sys
           /\ exc' = IF Ok(r) THEN "KeyboardInterrupt" ELSE r.exc
    /\ UNCHANGED <<fs, now, debug, host, dump, pc>>

\* return result
Return ==
    /\ pc = "dumped"
    /\ pc' = "returned"
    /\ UNCHANGED <<self, sys, fs, now, debug, host, exc, dump>>

\* the callbacks of a run whose clock readings are all the same
StartTestRun == StartTestRunAt(now)

StartTest == StartTestAt(now)

Outcome(o) == OutcomeAt(o, now)

StopTestRun == StopTestRunAt(now)

TestLevel ==
    \/ StartTest
    \/ \E o \in Outcomes : Outcome(o)
    \/ \E f \in BOOLEAN : SubTest(f)
    \/ StopTest
    \/ WriteOut
    \/ WriteErr
    \/ RebindStreams
    \/ FixtureSetup
    \/ FixtureRestore

\* the recorder driven through its lifecycle callbacks
Next ==
    \/ StartTestRun
    \/ TestLevel
    \/ StopTestRun

Spec == Init /\ [][Next]_vars

\* the recorder with dump_xml called at any moment of the run, by tests
\* that write nothing
NextDump ==
    \/ StartTestRun
    \/ StartTest
    \/ \E o \in Outcomes : Outcome(o)
    \/ StopTest
    \/ StopTestRun
    \/ DumpXml
    \/ DumpMakedirs
    \/ DumpWrite
    \/ OtherWriter

SpecDump == Init /\ [][NextDump]_vars

\* the recorder with a clock that advances between the callbacks
NextTime ==
    \/ \E t \in now..MaxClock : StartTestRunAt(t)
    \/ \E t \in now..MaxClock : StartTestAt(t)
    \/ \E o \in Outcomes, t \in now..MaxClock : OutcomeAt(o, t)
    \/ StopTest
    \/ \E t \in now..MaxClock : StopTestRunAt(t)

SpecTime == Init /\ [][NextTime]_vars

\* run_suite: the runner's run of the suite, then dump_xml, then return
NextRunSuite ==
    \/ StartTestRun
    \/ StartTest
    \/ \E o \in Outcomes : Outcome(o)
    \/ WriteOut
    \/ StopTest
    \/ Interrupt
    \/ StopTestRun
    \/ DumpXml
    \/ DumpMakedirs
    \/ DumpWrite
    \/ OtherWriter
    \/ Return

SpecRunSuite == InitRunSuite /\ [][NextRunSuite]_vars

\* the recorder with tests that write output and dump_xml called at any
\* moment of the run
NextOrder ==
    \/ StartTestRun
    \/ StartTest
    \/ \E o \in Outcomes : Outcome(o)
    \/ WriteOut
    \/ StopTest
    \/ StopTestRun
    \/ DumpXml
    \/ DumpMakedirs
    \/ DumpWrite

SpecOrder == Init /\ [][NextOrder]_vars

\* the recorder given test-like objects with and without the identifying
\* attributes
NextNames ==
    \/ StartTestRun
    \/ StartTest
    \/ \E o \in Outcomes, test \in 0..Described : OutcomeOf(o, test)
    \/ StopTest
    \/ StopTestRun

SpecNames == Init /\ [][NextNames]_vars

\* the recorder given failures and errors with tracebacks
InitFrames == InitWith("api", ExcInfos)

NextFrames ==
    \/ StartTestRun
    \/ StartTest
    \/ \E o \in Outcomes : Outcome(o)
    \/ StopTest
    \/ StopTestRun

SpecFrames == InitFrames /\ [][NextFrames]_vars


\* ---------------------------------------------------------------- claims

Cases == self.tree.cases

Attrs == self.tree.attrs

\* the tags of the children of a testcase element, in document order
Tags(case) == [i \in DOMAIN case.children |-> case.children[i].tag]

HasChild(case, tag) == \E i \in DOMAIN case.children : case.children[i].tag = tag

\* the number of testcase elements with a child of the given tag
NumWith(tree, tag) ==
    Cardinality({i \in DOMAIN tree.cases : HasChild(tree.cases[i], tag)})

\* the state of the run, read from the recorder
Phase(obj) ==
    IF ~obj.tree.made THEN "idle"
    ELSE IF DOMAIN obj.tree.attrs = {} THEN "running"
    ELSE "finalized"

Finalized == Phase(self) = "finalized"

\* C1: at finalization the Report's skips attribute equals the number of
\* CaseRecords with a skipped payload (addSkip, addExpectedFailure and
\* addUnexpectedSuccess each counting as one skip).
C1_SkipsCountSkippedRecords ==
    Finalized => Attrs.skips = ToString(NumWith(self.tree, "skipped"))

\* C2: at finalization the errors attribute equals the number of CaseRecords
\* with an error payload and the failures attribute the number of
\* CaseRecords with a failure payload.
C2_ErrorsFailuresCountRecords ==
    Finalized =>
        /\ Attrs.errors = ToString(NumWith(self.tree, "error"))
        /\ Attrs.failures = ToString(NumWith(self.tree, "failure"))

\* C3: the tests attribute set by stopTestRun equals the number of startTest
\* callbacks of the run.
C3_TestsEqualsStarted ==
    Finalized => Attrs.tests = ToString(host.started)

C3_Witness ==
    /\ Finalized
    /\ host.started = 2
    /\ Len(Cases) # host.started

\* C4: at finalization the number of testcase children equals the number of
\* tests started (the tests attribute).
C4_OneCasePerStartedTest ==
    Finalized => ToString(Len(Cases)) = Attrs.tests


\* the failure / error / skipped children of a testcase element
Payloads(case) == SelectSeq(Tags(case), LAMBDA tag : tag \in PayloadTags)

\* the payload each outcome callback is to record
ExpectedPayload(o) ==
    CASE o = "addSuccess" -> <<>>
      [] o = "addFailure" -> <<"failure">>
      [] o = "addError" -> <<"error">>
      [] o \in {"addSkip", "addUnexpectedSuccess", "addExpectedFailure"} -> <<"skipped">>

OneMoreCase(o) ==
    /\ exc' = "none"
    /\ Len(self'.tree.cases) = Len(Cases) + 1
    /\ SubSeq(self'.tree.cases, 1, Len(Cases)) = Cases
    /\ Payloads(self'.tree.cases[Len(Cases) + 1]) = ExpectedPayload(o)
    /\ self'.tree.cases[Len(Cases) + 1].test = Subject

AtMostOnePayload == \A i \in DOMAIN Cases : Len(Payloads(Cases[i])) <= 1

\* C5: each of the six outcome callbacks appends exactly one new CaseRecord,
\* with no payload for addSuccess, failure for addFailure, error for
\* addError and skipped for addSkip, addUnexpectedSuccess and
\* addExpectedFailure; every CaseRecord has at most one payload.
C5_OneCasePerOutcome ==
    /\ [][\A o \in Outcomes : Outcome(o) => OneMoreCase(o)]_vars
    /\ []AtMostOnePayload

C5_Witness ==
    /\ Len(Cases) = 2
    /\ Payloads(Cases[1]) = <<>>
    /\ Payloads(Cases[2]) = <<"skipped">>
    /\ Cases[1].test = Cases[2].test
    /\ Len(self.unexpectedSuccesses) = 1


\* the children with the given tag, as (testcase, child) positions
ChildrenWith(tree, tag) ==
    UNION {{<<i, j>> : j \in {k \in DOMAIN tree.cases[i].children :
                                  tree.cases[i].children[k].tag = tag}} :
           i \in DOMAIN tree.cases}

\* the testcase of the stopped test has a child of the given tag and text
Attached(tree, test, tag, text) ==
    \E i \in DOMAIN tree.cases :
        /\ tree.cases[i].test = test
        /\ \E j \in DOMAIN tree.cases[i].children :
              tree.cases[i].children[j] = Element(tag, text, <<>>, <<>>)

\* C6: with output capturing enabled for the run (debug false), every
\* stopTest(test) attaches the non-empty stdout and stderr text written since
\* that test's startTest to that test's CaseRecord, for every test of the
\* run: checked of the tests that have a CaseRecord.
C6_EveryStopTestAttaches ==
    [][(StopTest /\ ~debug /\ \E i \in DOMAIN Cases : Cases[i].test = host.cur) =>
          /\ host.printedOut # <<>> =>
                Attached(self'.tree, host.cur, "system-out", host.printedOut)
          /\ host.printedErr # <<>> =>
                Attached(self'.tree, host.cur, "system-err", host.printedErr)]_vars

NoCapturedChild ==
    /\ ChildrenWith(self.tree, "system-out") = {}
    /\ ChildrenWith(self.tree, "system-err") = {}

CapturedTextNonEmpty ==
    \A i \in DOMAIN Cases : \A j \in DOMAIN Cases[i].children :
        Cases[i].children[j].tag \in {"system-out", "system-err"} =>
            Cases[i].children[j].text # <<>>

\* a step adds a child with this tag only as stopTest does, with buffering
\* enabled and the stream's captured text non-empty
AddedOnlyBuffered(tag, captured) ==
    ChildrenWith(self'.tree, tag) # ChildrenWith(self.tree, tag) =>
        /\ StopTest
        /\ self.buffer
        /\ captured # <<>>
        /\ Attached(self'.tree, Cases[self.testcase].test, tag, captured)

\* C7: a CaseRecord has a system-out (system-err) child only if the captured
\* stdout (stderr) text was non-empty and buffering was enabled when stopTest
\* ran; with debug true no CaseRecord ever has such a child.
C7_CapturedOnlyWhenBuffered ==
    /\ [](debug => NoCapturedChild)
    /\ []CapturedTextNonEmpty
    /\ [][/\ AddedOnlyBuffered("system-out", GetOutput(M))
          /\ AddedOnlyBuffered("system-err", GetError(M))]_vars

C7_Witness ==
    /\ debug
    /\ host.cur = 0 /\ ~host.fixture /\ exc = "none"
    /\ host.printedOut # <<>> /\ host.printedErr # <<>>
    /\ Len(Cases) > 0
    /\ Cases[Len(Cases)].test = host.started
    /\ NoCapturedChild

C9_EarlyDumpRejected ==
    [][(DumpWrite /\ Phase(self) # "finalized") =>
          /\ exc' # "none"
          /\ fs'.junit.state # "xml"]_vars

PhaseStep ==
    \/ Phase(self') = Phase(self)
    \/ Phase(self) = "idle" /\ Phase(self') = "running"
    \/ Phase(self) = "running" /\ Phase(self') = "finalized"

\* what dump_xml does in each state of the run
DumpUnguarded ==
    DumpWrite =>
        CASE Phase(self) = "idle" ->
                /\ exc' = "AttributeError"
                /\ fs'.junit = [state |-> "empty", xml |-> NoTree]
          [] Phase(self) = "running" ->
                /\ exc' = "none"
                /\ fs'.junit = [state |-> "xml", xml |-> self.tree]
                /\ DOMAIN fs'.junit.xml.attrs = {}
          [] Phase(self) = "finalized" ->
                /\ exc' = "none"
                /\ fs'.junit = [state |-> "xml", xml |-> self.tree]
                /\ {"tests", "errors", "failures", "skips"} \subseteq
                      DOMAIN fs'.junit.xml.attrs

\* C9 as amended: a run goes idle -> running -> finalized; dump_xml has no
\* precondition: in running state it writes the testcase children so far
\* without the aggregate attributes, in idle state it raises after leaving
\* an empty junit.xml, in finalized state it writes the finalized report.
C9_DumpUnguarded ==
    /\ [][PhaseStep]_vars
    /\ [](Phase(self) = host.phase)
    /\ [][DumpUnguarded]_vars

C9_Witness ==
    /\ Phase(self) = "running"
    /\ fs.junit.state = "xml"
    /\ Len(fs.junit.xml.cases) = 1
    /\ DOMAIN fs.junit.xml.attrs = {}
    /\ exc = "none" /\ dump = "idle"

\* C10: run_suite runs the whole suite, then calls dump_xml exactly once on
\* the recorder, then returns; if the run aborts with an exception dump_xml
\* is never called and no file is written.
C10_RunThenDumpThenReturn ==
    /\ [][host.dumps' # host.dumps =>
            /\ pc = "ran" /\ Phase(self) = "finalized" /\ exc = "none"
            /\ host.dumps = 0]_vars
    /\ [](pc = "returned" =>
            /\ host.dumps = 1
            /\ fs.junit = [state |-> "xml", xml |-> self.tree])
    /\ [](pc = "aborted" =>
            /\ host.dumps = 0 /\ dump = "idle"
            /\ fs.junit.state = "absent")
    /\ [][pc = "aborted" => pc' = "aborted"]_vars
    /\ [](exc # "none" => pc \notin {"ran", "dump", "dumped", "returned"})

C10_Witness ==
    /\ pc = "aborted"
    /\ Len(Cases) = 2
    /\ Phase(self) = "finalized"
    /\ exc = "KeyboardInterrupt"


\* C11: directory creation in dump_xml is idempotent: whenever dump_xml
\* attempts to create the output directory, also when another writer has
\* created it since dump_xml's existence check, dump_xml raises nothing, the
\* directory exists afterwards and dump_xml goes on to write junit.xml; an
\* existing directory is not created again.
C11_MakedirsIdempotent ==
    /\ [][DumpMakedirs => (exc' = "none" /\ fs'.dir /\ dump' = "write")]_vars
    /\ [][(DumpXml /\ fs.dir) => dump' = "write"]_vars


\* the CaseRecord an outcome callback has just appended
NewCase == self'.tree.cases[Len(self'.tree.cases)]

\* C12: every CaseRecord's elapsed time is >= 0 and equals the interval
\* between the startTest callback of the same test and the outcome callback
\* that created the record, for every callback sequence: every outcome
\* callback is for a test that has had its startTest and records the time
\* since that startTest.
C12_TimeSinceOwnStart ==
    [][\A o \in Outcomes, t \in now..MaxClock : OutcomeAt(o, t) =>
          /\ NewCase.time >= 0
          /\ host.cur # 0
          /\ NewCase.time = t - host.startedAt]_vars

\* the time of the most recent startTest callback of the run, of whichever
\* test, or of the recorder's construction when no test has been started
LatestStart == IF host.started > 0 THEN host.startedAt ELSE host.madeAt

\* C12 as amended: the elapsed time is >= 0 and is measured from the most
\* recent startTest callback, or from the recorder's construction when there
\* was none.  That is the record's own test's startTest when the test was
\* started (a second outcome callback of the test included); the record of
\* an outcome that arrives without a startTest is timed from the startTest
\* of the test before it.  Times already recorded do not change.
C12_TimeSinceLatestStart ==
    /\ [][\A o \in Outcomes, t \in now..MaxClock : OutcomeAt(o, t) =>
            /\ NewCase.time >= 0
            /\ NewCase.time = t - LatestStart
            /\ host.cur # 0 => (NewCase.test = host.cur /\ LatestStart = host.startedAt)]_vars
    /\ [][\A i \in DOMAIN Cases :
            i \in DOMAIN self'.tree.cases /\ self'.tree.cases[i].time = Cases[i].time]_vars

C12_Witness ==
    /\ Len(Cases) = 2
    /\ Cases[1].test = 1 /\ Cases[1].time = 1
    /\ Cases[2].test = ErrorHolder /\ Cases[2].time = 2
    /\ host.started = 1 /\ host.startedAt = 0 /\ host.cur = 0


\* the CaseRecord is the record of the outcome callback
RecordOf(case, call) ==
    /\ case.test = call.test
    /\ Payloads(case) = ExpectedPayload(call.callback)

InArrivalOrder ==
    /\ Len(Cases) = Len(host.calls)
    /\ \A i \in DOMAIN Cases : RecordOf(Cases[i], host.calls[i])

\* a step keeps every CaseRecord at its position, with its test, time and
\* children (a step may add children to it)
KeepsCases ==
    \A i \in DOMAIN Cases :
        /\ i \in DOMAIN self'.tree.cases
        /\ self'.tree.cases[i].test = Cases[i].test
        /\ self'.tree.cases[i].time = Cases[i].time
        /\ Len(self'.tree.cases[i].children) >= Len(Cases[i].children)
        /\ SubSeq(self'.tree.cases[i].children, 1, Len(Cases[i].children)) =
              Cases[i].children

\* C13: CaseRecords are children of the Report in execution order: in every
\* state of a run the sequence of testcase children is the sequence of the
\* outcome callbacks received since startTestRun, in arrival order, and no
\* later callback (outcome, stopTest, stopTestRun, dump_xml) removes or
\* moves a CaseRecord.
C13_CasesInArrivalOrder ==
    /\ []InArrivalOrder
    /\ [][KeepsCases]_vars

C13_Witness ==
    /\ Len(Cases) = 2
    /\ host.calls = <<[callback |-> "addFailure", test |-> 1],
                      [callback |-> "addSkip", test |-> ErrorHolder]>>
    /\ HasChild(Cases[1], "system-out")
    /\ Finalized
    /\ fs.junit = [state |-> "xml", xml |-> self.tree]


DumpStep == DumpXml \/ DumpMakedirs \/ DumpWrite

\* junit.xml holds the finalized report of the recorder
FinalReportWritten ==
    /\ Finalized
    /\ fs.junit = [state |-> "xml", xml |-> self.tree]

\* C14: dump_xml is idempotent: no step of dump_xml changes the recorder
\* (tree, counters, timing state), and once the finalized report has been
\* written a further dump_xml to the same directory raises nothing and
\* leaves a junit.xml identical to the first.
C14_DumpIdempotent ==
    /\ [][DumpStep => self' = self]_vars
    /\ [][(DumpStep /\ FinalReportWritten) =>
            (exc' = "none" /\ fs'.junit = fs.junit)]_vars
    /\ []((host.finalDumps = 2 /\ dump = "idle") =>
            (exc = "none" /\ FinalReportWritten))

C14_Witness ==
    /\ host.finalDumps = 2 /\ dump = "idle"
    /\ FinalReportWritten
    /\ Len(Cases) = 2
    /\ exc = "none"


\* the name a CaseRecord of the test is to have
NamedAfter(case, test) ==
    /\ HasMethodName(test) => case.name = MethodName(test)
    /\ (~HasMethodName(test) /\ HasDescription(test)) => case.name = Description(test)
    /\ (~HasMethodName(test) /\ ~HasDescription(test)) => case.name = "UNKNOWN"

AllChildren(tree) ==
    UNION {{<<i, j, tree.cases[i].children[j]>> : j \in DOMAIN tree.cases[i].children} :
           i \in DOMAIN tree.cases}

\* the child elements a step adds
NewChildren == AllChildren(self'.tree) \ AllChildren(self.tree)

BufferMonotone == self'.buffer => self.buffer

\* a step taken with buffering off adds no captured output, neither as an
\* element nor as a section of a traceback
NothingCapturedUnbuffered ==
    ~self.buffer =>
        \A c \in NewChildren :
            /\ c[3].tag \notin {"system-out", "system-err"}
            /\ c[3].tbOut = <<>> /\ c[3].tbErr = <<>>

AtMostOneCaptured ==
    /\ Cardinality(ChildrenWith(self.tree, "system-out")) <= 1
    /\ Cardinality(ChildrenWith(self.tree, "system-err")) <= 1

\* a call of _restoreStdout: by stopTest, or by the host after a fixture
RestoreStep == StopTest \/ FixtureRestore

HasCaptured == self.buffer /\ (GetOutput(M) # <<>> \/ GetError(M) # <<>>)

\* C17: whenever stopTest(t) attaches captured output, the CaseRecord that
\* receives it is a record of the same test t (created by an outcome callback
\* after t's startTest), never the record of another test, and a stopTest
\* with captured output always has a CaseRecord to attach it to.
C17_OutputOnOwnRecord ==
    [][StopTest =>
          /\ \A c \in NewChildren :
                c[3].tag \in {"system-out", "system-err"} =>
                    self'.tree.cases[c[1]].test = host.cur
          /\ HasCaptured => (self.testcase # 0 /\ exc' = "none")]_vars


\* the callbacks that record a traceback
TbOutcomes == {"addFailure", "addError", "addExpectedFailure"}

\* the number of leading internal frames of a traceback
Leading(tb) ==
    CHOOSE k \in 0..Len(tb) :
        /\ \A i \in 1..k : tb[i].internal
        /\ k = Len(tb) \/ ~tb[k + 1].internal

\* the last frame of the maximal run of non-internal frames after frame k
RunEnd(tb, k) ==
    CHOOSE j \in k..Len(tb) :
        /\ \A i \in (k + 1)..j : ~tb[i].internal
        /\ j = Len(tb) \/ tb[j + 1].internal

\* the frames the claim says are rendered
Selected(err) ==
    LET k == Leading(err.tb)
    IN  IF err.failure THEN SubSeq(err.tb, k + 1, RunEnd(err.tb, k))
        ELSE SubSeq(err.tb, k + 1, Len(err.tb))

\* C18: traceback frame selection in _exc_info_to_string, for every frame
\* sequence with an internal flag per frame: the leading internal frames are
\* dropped; for a failureException only the maximal run of non-internal
\* frames that follows is rendered (none when none remain); for any other
\* exception type every frame after the leading internal ones is rendered.
C18_FrameSelection ==
    [][\A o \in TbOutcomes : Outcome(o) =>
          /\ exc' = "none"
          /\ \E c \in NewChildren :
                /\ c[1] = Len(self'.tree.cases)
                /\ c[3].tag \in PayloadTags
                /\ c[3].text = Selected(host.err)]_vars

C18_Witness ==
    /\ host.err.failure
    /\ Len(host.err.tb) = 4
    /\ host.err.tb[1].internal /\ ~host.err.tb[2].internal
    /\ host.err.tb[3].internal /\ ~host.err.tb[4].internal
    /\ Len(Cases) = 1
    /\ \E j \in DOMAIN Cases[1].children :
          /\ Cases[1].children[j].tag = "failure"
          /\ Cases[1].children[j].text = <<host.err.tb[2]>>

====
